---- MODULE Spec2Model ----
(***************************************************************************)
(* run_upstream.py: the command-line driver of the upstream pre-training.  *)
(* One invocation of main() is a sequential process whose position is pc.  *)
(* A Python str is the sequence of its code points: 'ck/' is <<99, 107,    *)
(* 47>>, written Text(<<"c", "k", "/">>).  A path of the file system is a  *)
(* str; directories and files are held under their path from the working  *)
(* directory, or under their absolute path when they lie outside it.       *)
(***************************************************************************)
EXTENDS Integers, Sequences, FiniteSets, TLC

VARIABLES
    pc,          \* position of the invocation in main / get_upstream_args / run_transformer
    error,       \* the uncaught exception that ended the invocation, <<>> when none
    cli,         \* the command line of the invocation, as argparse read it: <<namespace>>
    args,        \* the args namespace main works on
    config,      \* the config mapping main works on
    globbed,     \* the list glob.glob returned, as returned: <<list>>
    ckpts,       \* get_upstream_args' local ckpts (the glob result, then sorted)
    resume_ckpt, \* get_upstream_args' local resume_ckpt
    ckpt,        \* get_upstream_args' local ckpt (the object torch.load returned)
    rng,         \* the state of the `random` module's generator
    backend,     \* numpy / torch seeds and the cudnn flags
    fs,          \* the file system: directories and files (path -> content)
    fs0,         \* the file system when the invocation started
    ckpdir,      \* run_transformer's local ckpdir
    called,      \* the run paths entered, in call order
    loaded,      \* the files read so far: <<reader, path>>
    dataloader,  \* the dataloader constructed, <<>> when none
    runner,      \* the Runner constructed, <<>> when none
    model        \* the TRANSFORMER constructed by test_transformer, <<>> when none

vars == <<pc, error, cli, args, config, globbed, ckpts, resume_ckpt, ckpt, rng, backend,
          fs, fs0, ckpdir, called, loaded, dataloader, runner, model>>

-----------------------------------------------------------------------------
(* Bound of the model *)

\* the most files the resume directory holds
MaxFiles == 2

-----------------------------------------------------------------------------
(* Characters and strings *)

\* the printable ASCII characters, from code point 32 (the space) to 126; the
\* grave accent, which a string of this language cannot hold, is spelled out
Ascii ==
    <<" ", "!", "\"", "#", "$", "%", "&", "'", "(", ")", "*", "+", ",", "-", ".", "/",
      "0", "1", "2", "3", "4", "5", "6", "7", "8", "9", ":", ";", "<", "=", ">", "?",
      "@", "A", "B", "C", "D", "E", "F", "G", "H", "I", "J", "K", "L", "M", "N", "O",
      "P", "Q", "R", "S", "T", "U", "V", "W", "X", "Y", "Z", "[", "\\", "]", "^", "_",
      "grave", "a", "b", "c", "d", "e", "f", "g", "h", "i", "j", "k", "l", "m", "n", "o",
      "p", "q", "r", "s", "t", "u", "v", "w", "x", "y", "z", "{", "|", "}", "~">>

\* ord(c) of a printable ASCII character
Code(c) == 31 + (CHOOSE i \in 1..Len(Ascii) : Ascii[i] = c)

\* the str spelled by the characters t
Text(t) == [i \in 1..Len(t) |-> Code(t[i])]

\* ord('/'), ord('.'), ord('-'), ord('_'), ord('+'), ord('0')
Slash == 47
Dot == 46
Hyphen == 45
Underscore == 95
Plus == 43
Zero == 48

\* None, for the fields whose values are strings
None == <<0 - 1>>
\* the empty string ''
Empty == <<>>

Max(S) == CHOOSE x \in S : \A y \in S : y <= x

Min(S) == CHOOSE x \in S : \A y \in S : x <= y

\* the code points int() strips from both ends of its argument
Whitespace ==
    (9..13) \cup {32, 133, 160, 5760} \cup (8192..8202)
    \cup {8232, 8233, 8239, 8287, 12288}

\* the code points of the digits zero of Unicode (category Nd); the nine
\* code points after each are its digits one to nine
DecimalZeros ==
    {48, 1632, 1776, 1984, 2406, 2534, 2662, 2790, 2918, 3046, 3174, 3302, 3430,
     3558, 3664, 3792, 3872, 4160, 4240, 6112, 6160, 6470, 6608, 6784, 6800, 6992,
     7088, 7232, 7248, 42528, 43216, 43264, 43472, 43504, 43600, 44016, 65296,
     66720, 68912, 69734, 69872, 69942, 70096, 70384, 70736, 70864, 71248, 71360,
     71472, 71904, 72016, 72784, 73040, 73120, 92768, 92864, 93008, 120782, 120792,
     120802, 120812, 120822, 123200, 123632, 125264, 130032}

\* c is a decimal digit for int()
IsDigit(c) == \E z \in DecimalZeros : c \in z..(z + 9)

\* the value of decimal digit c
DigitVal(c) == c - (CHOOSE z \in DecimalZeros : c \in z..(z + 9))

\* s.strip()
Strip(s) ==
    LET keep == {i \in 1..Len(s) : s[i] \notin Whitespace}
    IN IF keep = {} THEN <<>> ELSE SubSeq(s, Min(keep), Max(keep))

\* s without the sign int() accepts in front of the digits
Unsigned(s) == IF Len(s) > 0 /\ s[1] \in {Plus, Hyphen} THEN Tail(s) ELSE s

\* d is a numeral of int(): decimal digits, single underscores between two digits
IsDigitRun(d) ==
    /\ Len(d) > 0
    /\ \A i \in 1..Len(d) :
         \/ IsDigit(d[i])
         \/ /\ d[i] = Underscore
            /\ i > 1
            /\ i < Len(d)
            /\ IsDigit(d[i - 1])
            /\ IsDigit(d[i + 1])

RECURSIVE DigitsValue(_)
\* the value of a numeral, its underscores skipped ("010" is 10)
DigitsValue(d) ==
    IF Len(d) = 0 THEN 0
    ELSE IF d[Len(d)] = Underscore THEN DigitsValue(SubSeq(d, 1, Len(d) - 1))
    ELSE 10 * DigitsValue(SubSeq(d, 1, Len(d) - 1)) + DigitVal(d[Len(d)])

\* int(s) succeeds: white space around, an optional sign, a numeral
IsInt(s) == IsDigitRun(Unsigned(Strip(s)))

\* int(s) when it succeeds
ToInt(s) ==
    LET t == Strip(s)
    IN IF Len(t) > 0 /\ t[1] = Hyphen THEN 0 - DigitsValue(Unsigned(t))
       ELSE DigitsValue(Unsigned(t))

RECURSIVE Str(_)
\* str(n) for n >= 0
Str(n) == IF n < 10 THEN <<Zero + n>>
          ELSE Str(n \div 10) \o <<Zero + (n % 10)>>

\* the positions of separator sep in s
SepPositions(s, sep) == {i \in 1..Len(s) : s[i] = sep}

\* s.split(sep)[-1]
SplitLast(s, sep) ==
    LET at == SepPositions(s, sep)
    IN IF at = {} THEN s ELSE SubSeq(s, Max(at) + 1, Len(s))

\* s.split(sep)[0]
SplitFirst(s, sep) ==
    LET at == SepPositions(s, sep)
    IN IF at = {} THEN s ELSE SubSeq(s, 1, Min(at) - 1)

\* s.endswith(t)
EndsWith(s, t) == Len(s) >= Len(t) /\ SubSeq(s, Len(s) - Len(t) + 1, Len(s)) = t

RECURSIVE rstrip(_)
\* s.rstrip('/')
rstrip(s) ==
    IF Len(s) > 0 /\ s[Len(s)] = Slash THEN rstrip(SubSeq(s, 1, Len(s) - 1)) ELSE s

\* os.path.join(a, b)
PathJoin(a, b) ==
    IF Len(b) > 0 /\ b[1] = Slash THEN b
    ELSE IF Len(a) = 0 \/ a[Len(a)] = Slash THEN a \o b
    ELSE a \o <<Slash>> \o b

\* os.path.split(p)
split(p) ==
    LET i == Max({0} \cup SepPositions(p, Slash))
        head == SubSeq(p, 1, i)
        stripped == rstrip(head)
    IN [head |-> IF stripped = <<>> THEN head ELSE stripped,
        tail |-> SubSeq(p, i + 1, Len(p))]

-----------------------------------------------------------------------------
(* Namespaces and mappings *)

\* a namespace or mapping with no entries
NoEntries == [f \in {} |-> Empty]

\* setattr(ns, f, v); also d[f] = v on a mapping
setattr(ns, f, v) == [g \in DOMAIN ns \cup {f} |-> IF g = f THEN v ELSE ns[g]]

\* update_args with the two priorities swapped: the fields of old win
update_args_old_wins(old, new) ==
    [f \in DOMAIN old \cup DOMAIN new |-> IF f \in DOMAIN old THEN old[f] ELSE new[f]]

\* update_args(old, new): old_dict.update(new_dict), the fields of new win
update_args(old, new) ==
    [f \in DOMAIN old \cup DOMAIN new |-> IF f \in DOMAIN new THEN new[f] ELSE old[f]]

-----------------------------------------------------------------------------
(* The inputs: command lines, files, resume directories, checkpoints *)

Transformer == Text(<<"t", "r", "a", "n", "s", "f", "o", "r", "m", "e", "r">>)
Apc == Text(<<"a", "p", "c">>)
\* a --run value outside the parser's choices
OtherRun == Text(<<"m", "o", "c", "k", "i", "n", "g", "j", "a", "y">>)

\* conf/a.yaml, b.yaml, on.yaml, m.ckpt
ConfA == Text(<<"c", "o", "n", "f", "/", "a", ".", "y", "a", "m", "l">>)
ConfB == Text(<<"b", ".", "y", "a", "m", "l">>)
OnlineY == Text(<<"o", "n", ".", "y", "a", "m", "l">>)
TestCkpt == Text(<<"m", ".", "c", "k", "p", "t">>)
\* ck, and ck/ as a shell completes it
ResumeDir == Text(<<"c", "k">>)
ResumeDirSlash == Text(<<"c", "k", "/">>)
\* ck/states-9.ckpt
ResumeFile == Text(<<"c", "k", "/", "s", "t", "a", "t", "e", "s", "-", "9", ".", "c", "k", "p", "t">>)
OutDir == Text(<<"o", "u", "t">>)
DataDir == Text(<<"d", "a", "t", "a">>)
ExpName == Text(<<"e", "x", "p">>)
OldName == Text(<<"o", "l", "d">>)
\* old/states-1.ckpt
OldResume == Text(<<"o", "l", "d", "/", "s", "t", "a", "t", "e", "s", "-", "1", ".", "c", "k", "p", "t">>)

\* --seed's default
DefaultSeed == 1337
\* the seeds the command lines and checkpoints of the model give
Seeds == {DefaultSeed, 7}
OtherSeed == CHOOSE s \in Seeds : s # DefaultSeed

\* what args.run holds after a parse: None when --run is absent, or one of choices
RunChoices == {None, Transformer, Apc}

\* the values --run can be given: absent, the two choices, another word
RunInputs == RunChoices \cup {OtherRun}

\* the names the resume directory may hold: states-9.ckpt, states-10.ckpt,
\* best-10.ckpt, states-+0_8.ckpt, model.ckpt, log.txt
DirPool == { Text(<<"s", "t", "a", "t", "e", "s", "-", "9", ".", "c", "k", "p", "t">>),
             Text(<<"s", "t", "a", "t", "e", "s", "-", "1", "0", ".", "c", "k", "p", "t">>),
             Text(<<"b", "e", "s", "t", "-", "1", "0", ".", "c", "k", "p", "t">>),
             Text(<<"s", "t", "a", "t", "e", "s", "-", "+", "0", "_", "8", ".", "c", "k", "p", "t">>),
             Text(<<"m", "o", "d", "e", "l", ".", "c", "k", "p", "t">>),
             Text(<<"l", "o", "g", ".", "t", "x", "t">>) }

\* the orders the OS may list the entries S of a directory in
Listings(S) ==
    {l \in [1..Cardinality(S) -> S] : \A i, j \in 1..Cardinality(S) : l[i] = l[j] => i = j}

\* the contents yaml.load reads a mapping from
YamlContents == {"yamlA", "yamlB", "yamlOnline"}

\* the exception yaml.load raises on a file's content, "" when none: a checkpoint
\* is no text, the lines of a training log ('step: 1: loss') are no YAML document
yaml_load_error(content) ==
    IF content \in YamlContents THEN ""
    ELSE IF content = "ckpt" THEN "UnicodeDecodeError"
    ELSE "ScannerError"

\* yaml.load of a file's content
yaml_load(content) ==
    CASE content = "yamlA" ->
           [data_path |-> DataDir, duo_feature |-> FALSE, prune_headids |-> Text(<<"0", "-", "2">>)]
      [] content = "yamlB" ->
           [data_path |-> DataDir, duo_feature |-> TRUE, prune_headids |-> Text(<<"0", "-", "2">>)]
      [] content = "yamlOnline" -> [feat_type |-> Text(<<"f", "b", "a", "n", "k">>)]

\* parse_prune_heads(config): the head specification is replaced by its normal form
parse_prune_heads(c) == setattr(c, "prune_headids", Text(<<"h", "e", "a", "d", "s">>))

\* the namespace parser.parse_args() returns
Namespace(resume, run, cfg, name, dir, seed, test, online) ==
    [resume |-> resume, run |-> run, config |-> cfg, name |-> name, ckpdir |-> dir,
     seed |-> seed, test |-> test, cpu |-> FALSE, multi_gpu |-> FALSE,
     test_reconstruct |-> FALSE, online_config |-> online]

\* the settings a training run stores in its checkpoints
Settings(paras, cfg) == [Paras |-> paras, Config |-> cfg]

\* the checkpoints torch.load may return
Checkpoints ==
    { \* a default transformer training run
      Settings(setattr(Namespace(None, Transformer, ConfA, None, Empty, DefaultSeed,
                                 Empty, None), "gpu", TRUE),
               parse_prune_heads(yaml_load("yamlA"))),
      \* a named run resumed before, with on-the-fly features
      Settings(setattr(Namespace(OldResume, Transformer, ConfB, OldName, Empty, OtherSeed,
                                 Empty, OnlineY), "gpu", TRUE),
               setattr(parse_prune_heads(yaml_load("yamlB")), "online",
                       yaml_load("yamlOnline"))),
      \* settings stored by a version with fewer flags, its config not normalised
      Settings([seed |-> OtherSeed, name |-> OldName, ckpdir |-> OutDir,
                resume |-> OldResume],
               yaml_load("yamlA")),
      \* settings naming the test paths
      Settings(setattr(Namespace(None, Transformer, ConfA, None, Empty, DefaultSeed,
                                 TestCkpt, None), "gpu", TRUE),
               parse_prune_heads(yaml_load("yamlA"))),
      Settings(setattr(Namespace(None, Apc, ConfA, None, Empty, DefaultSeed,
                                 TestCkpt, None), "gpu", TRUE),
               parse_prune_heads(yaml_load("yamlA"))),
      Settings(setattr(Namespace(None, Apc, ConfA, None, Empty, OtherSeed,
                                 Empty, None), "gpu", TRUE),
               parse_prune_heads(yaml_load("yamlA"))) }

-----------------------------------------------------------------------------
(* The random module *)

\* random.randint's bounds in run_transformer
RandLo == 0
RandHi == 999

\* the values the k-th random.randint(0, 999) after random.seed(seed) may return:
\* the one value CPython's generator gives where it is tabulated here, and any
\* value of the range for the seeds and draws the table does not hold
randint_after_seed(seed, k) ==
    CASE seed = 1337 /\ k = 0 -> {632}
      [] seed = 1337 /\ k = 1 -> {947}
      [] seed = 7 /\ k = 0 -> {331}
      [] seed = 7 /\ k = 1 -> {970}
      [] seed = 0 /\ k = 0 -> {864}
      [] seed = 0 /\ k = 1 -> {394}
      [] seed = 1 /\ k = 0 -> {137}
      [] seed = 1 /\ k = 1 -> {582}
      [] seed = 42 /\ k = 0 -> {654}
      [] seed = 42 /\ k = 1 -> {114}
      [] seed = 2020 /\ k = 0 -> {634}
      [] seed = 2020 /\ k = 1 -> {634}
      [] OTHER -> RandLo..RandHi

\* the values random.randint(a, b) may return in generator state g: the generator
\* is seeded from OS entropy until random.seed is called
randint(g, a, b) ==
    IF g.seeded /\ a = RandLo /\ b = RandHi THEN randint_after_seed(g.seed, g.draws)
    ELSE a..b

\* the generator after random.seed(seed)
random_seed(g, seed) == [seeded |-> TRUE, seed |-> seed, draws |-> 0]

\* the generator after one draw
drawn(g) == [g EXCEPT !.draws = @ + 1]

-----------------------------------------------------------------------------
(* The file system *)

\* 'result/result_transformer/', the directory run_transformer puts unnamed runs under
DefaultPrefix == Text(<<"r", "e", "s", "u", "l", "t", "/", "r", "e", "s", "u", "l", "t", "_", "t", "r", "a", "n", "s", "f", "o", "r", "m", "e", "r", "/">>)

\* 'run_' + str(n)
RunPrefix == Text(<<"r", "u", "n", "_">>)
RunName(n) == RunPrefix \o Str(n)

\* the name of the directory itself, and of the one above
CurDir == <<Dot>>
ParDir == <<Dot, Dot>>

\* the working directory of the invocation, as the names from the root: /cwd
\* (99, 119, 100 are 'c', 'w', 'd')
Cwd == << <<99, 119, 100>> >>

RECURSIVE Components(_)
\* p.split('/')
Components(p) ==
    LET at == SepPositions(p, Slash)
    IN IF at = {} THEN <<p>>
       ELSE <<SubSeq(p, 1, Min(at) - 1)>> \o Components(SubSeq(p, Min(at) + 1, Len(p)))

RECURSIVE Joined(_)
\* '/'.join(cs)
Joined(cs) == IF Len(cs) = 0 THEN <<>>
              ELSE IF Len(cs) = 1 THEN cs[1]
              ELSE Joined(SubSeq(cs, 1, Len(cs) - 1)) \o <<Slash>> \o cs[Len(cs)]

\* A place is the sequence of names that leads to it from the root.
\* the path the file system holds a place under: from the working directory
\* when the place lies in it, the absolute path otherwise
StoredOf(at) ==
    IF Len(at) > Len(Cwd) /\ SubSeq(at, 1, Len(Cwd)) = Cwd
    THEN Joined(SubSeq(at, Len(Cwd) + 1, Len(at)))
    ELSE <<Slash>> \o Joined(at)

\* the place a relative or an absolute path starts from
Start(p) == IF Len(p) > 0 /\ p[1] = Slash THEN <<>> ELSE Cwd

RECURSIVE Lexical(_, _)
\* the place the components cs lead to from the place `at`, read as text
Lexical(at, cs) ==
    IF Len(cs) = 0 THEN at
    ELSE IF Head(cs) \in {Empty, CurDir} THEN Lexical(at, Tail(cs))
    ELSE IF Head(cs) = ParDir THEN Lexical(SubSeq(at, 1, Len(at) - 1), Tail(cs))
    ELSE Lexical(Append(at, Head(cs)), Tail(cs))

\* the place a path the file system holds stands for
PlaceOf(p) == Lexical(Start(p), Components(p))

\* what a place is: the root, the working directory and the directories above
\* it are directories; the rest is what the file system holds
Kind(f, at) ==
    LET held == StoredOf(at)
    IN IF Len(at) <= Len(Cwd) /\ at = SubSeq(Cwd, 1, Len(at)) THEN "dir"
       ELSE IF held \in f.dirs THEN "dir"
       ELSE IF held \in DOMAIN f.files THEN "file"
       ELSE "none"

RECURSIVE Walk(_, _, _)
\* the place the components cs lead to from the place `at`, each one followed as
\* the OS follows it: a component is followed from a directory only; err names
\* the exception of a step that cannot be taken, "" when there is none
Walk(f, at, cs) ==
    LET k == Kind(f, at)
    IN IF Len(cs) = 0 THEN [err |-> "", at |-> at]
       ELSE IF k = "file" THEN [err |-> "NotADirectoryError", at |-> at]
       ELSE IF k = "none" THEN [err |-> "FileNotFoundError", at |-> at]
       ELSE IF Head(cs) \in {Empty, CurDir} THEN Walk(f, at, Tail(cs))
       ELSE IF Head(cs) = ParDir THEN Walk(f, SubSeq(at, 1, Len(at) - 1), Tail(cs))
       ELSE Walk(f, Append(at, Head(cs)), Tail(cs))

\* os.stat at the end of a walk w: the place must hold something
Found(f, w) ==
    IF w.err = "" /\ Kind(f, w.at) = "none" THEN [err |-> "FileNotFoundError", at |-> w.at]
    ELSE w

\* os.stat(p): the place path p names, or the exception it raises
Resolve(f, p) ==
    IF Len(p) = 0 THEN [err |-> "FileNotFoundError", at |-> <<>>]
    ELSE Found(f, Walk(f, Start(p), Components(p)))

\* os.path.exists(p)
Exists(f, p) == Resolve(f, p).err = ""

\* the stat result r is a directory
IsDirAt(f, r) == r.err = "" /\ Kind(f, r.at) = "dir"

\* os.path.isdir(p)
IsDir(f, p) == IsDirAt(f, Resolve(f, p))

\* the path the file system holds the existing file p under
Stored(f, p) == StoredOf(Resolve(f, p).at)

\* two stat results name one place
SamePlace(ra, rb) == ra.err = "" /\ rb.err = "" /\ ra.at = rb.at

\* os.path.samefile(a, b), False when one of the two cannot be found
samefile(f, a, b) == SamePlace(Resolve(f, a), Resolve(f, b))

\* the names the directory at place `at` holds
Entries(f, at) ==
    { h[Len(h)] : h \in {q \in {PlaceOf(q) : q \in f.dirs \cup DOMAIN f.files}
                                 \cup {SubSeq(Cwd, 1, k) : k \in 1..Len(Cwd)} :
                           Len(q) = Len(at) + 1 /\ SubSeq(q, 1, Len(at)) = at} }

\* the names os.scandir gives for the stat result r of a directory, the
\* directories among them only when dironly; nothing when it cannot be listed
Scanned(f, r, dironly) ==
    IF ~IsDirAt(f, r) THEN {}
    ELSE {n \in Entries(f, r.at) : ~dironly \/ Kind(f, Append(r.at, n)) = "dir"}

\* the names glob._iterdir(d, dironly) gives: os.scandir(d), of '.' for d = ''
listdir(f, d, dironly) == Scanned(f, Resolve(f, IF d = <<>> THEN CurDir ELSE d), dironly)

\* open(p, 'r') on the stat result r: the exception, "" when r is a file
ReadError(f, r) ==
    IF r.err # "" THEN r.err
    ELSE IF Kind(f, r.at) = "dir" THEN "IsADirectoryError"
    ELSE ""

\* the exception open(p, 'r') raises, "" when p names a file
open_error(f, p) == ReadError(f, Resolve(f, p))

\* the components above the last one, and the last one
Above(cs) == SubSeq(cs, 1, Len(cs) - 1)
Leaf(cs) == cs[Len(cs)]

\* open(p, 'w') of the name `name` in the directory the walk `parent` ends at;
\* slashed: p ends in a separator
WriteIn(f, parent, name, slashed) ==
    IF parent.err # "" THEN parent
    ELSE IF Kind(f, parent.at) = "file" THEN [err |-> "NotADirectoryError", at |-> <<>>]
    ELSE IF Kind(f, parent.at) = "none" THEN [err |-> "FileNotFoundError", at |-> <<>>]
    ELSE IF \/ name \in {CurDir, ParDir}
            \/ slashed
            \/ Kind(f, Append(parent.at, name)) = "dir"
    THEN [err |-> "IsADirectoryError", at |-> <<>>]
    ELSE [err |-> "", at |-> Append(parent.at, name)]

\* open(p, 'w') of a path whose text without the trailing separators is s
WriteAt(f, p, s) ==
    IF Len(p) = 0 THEN [err |-> "FileNotFoundError", at |-> <<>>]
    ELSE IF Len(s) = 0 THEN [err |-> "IsADirectoryError", at |-> <<>>]
    ELSE WriteIn(f, Walk(f, Start(p), Above(Components(s))), Leaf(Components(s)),
                 Len(s) < Len(p))

\* open(p, 'w'): the place of the file it creates or truncates, or the exception
open_write(f, p) == WriteAt(f, p, rstrip(p))

\* os.mkdir of the name `name` in the directory the walk `parent` ends at
MkdirIn(f, parent, name) ==
    IF parent.err # "" THEN [fs |-> f, err |-> parent.err]
    ELSE IF Kind(f, parent.at) = "file" THEN [fs |-> f, err |-> "NotADirectoryError"]
    ELSE IF Kind(f, parent.at) = "none" THEN [fs |-> f, err |-> "FileNotFoundError"]
    ELSE IF name \in {CurDir, ParDir} \/ Kind(f, Append(parent.at, name)) # "none"
    THEN [fs |-> f, err |-> "FileExistsError"]
    ELSE [fs |-> [f EXCEPT !.dirs = @ \cup {StoredOf(Append(parent.at, name))}],
          err |-> ""]

\* os.mkdir of a path whose text without the trailing separators is s
MkdirAt(f, p, s) ==
    IF Len(p) = 0 THEN [fs |-> f, err |-> "FileNotFoundError"]
    ELSE IF Len(s) = 0 THEN [fs |-> f, err |-> "FileExistsError"]
    ELSE MkdirIn(f, Walk(f, Start(p), Above(Components(s))), Leaf(Components(s)))

\* os.mkdir(p): the file system after it and the exception it raises, "" when none
mkdir(f, p) == MkdirAt(f, p, rstrip(p))

\* head, tail = path.split(name); if not tail: head, tail = path.split(head)
HeadTail(name) ==
    LET whole == split(name)
    IN IF whole.tail = <<>> THEN split(whole.head) ELSE whole

\* os.makedirs after the directories above were made with outcome `made`: a
\* FileExistsError of theirs is passed over, a tail '.' needs no directory
MakeLeaf(made, name, tail) ==
    IF made.err \notin {"", "FileExistsError"} THEN made
    ELSE IF tail = CurDir THEN [fs |-> made.fs, err |-> ""]
    ELSE mkdir(made.fs, name)

RECURSIVE makedirs(_, _)
\* os.makedirs(name): the directories above are made first where the path above
\* does not exist, then the leaf
MakeDirs(f, name, s) ==
    IF s.head # <<>> /\ s.tail # <<>> /\ ~Exists(f, s.head)
    THEN MakeLeaf(makedirs(f, s.head), name, s.tail)
    ELSE mkdir(f, name)

makedirs(f, name) == MakeDirs(f, name, HeadTail(name))

\* shutil.copyfile once open(src, 'r') has given r and open(dst, 'w') has given w
CopyOpened(f, src, dst, r, w) ==
    IF r # "" THEN [fs |-> f, err |-> r]
    ELSE IF w.err = "IsADirectoryError" /\ ~Exists(f, dst)
    THEN [fs |-> f, err |-> "FileNotFoundError"]
    ELSE IF w.err # "" THEN [fs |-> f, err |-> w.err]
    ELSE [fs |-> [f EXCEPT !.files = setattr(@, StoredOf(w.at), f.files[Stored(f, src)])],
          err |-> ""]

\* shutil.copyfile(src, dst): the file system after it and the exception it raises
copyfile(f, src, dst) ==
    IF samefile(f, src, dst) THEN [fs |-> f, err |-> "SameFileError"]
    ELSE CopyOpened(f, src, dst, open_error(f, src), open_write(f, dst))

\* the directories and files around the resume directory an invocation may find
Surroundings ==
    LET files == [p \in {ConfA, ConfB, OnlineY} |->
                    CASE p = ConfA -> "yamlA" [] p = ConfB -> "yamlB" [] OTHER -> "yamlOnline"]
        dirs == {Text(<<"c", "o", "n", "f">>), ResumeDir}
        default == CHOOSE n \in randint_after_seed(DefaultSeed, 0) : TRUE
    IN { [dirs |-> dirs \cup {DataDir}, files |-> files],
         [dirs |-> dirs \cup {OutDir}
                   \cup {Text(<<"r", "e", "s", "u", "l", "t">>), rstrip(DefaultPrefix),
                         DefaultPrefix \o RunName(default)},
          files |-> setattr(files, TestCkpt, "ckpt")] }

\* the content of a file of the resume directory: a checkpoint or a training log
content(name) == IF EndsWith(name, Text(<<".", "c", "k", "p", "t">>)) THEN "ckpt" ELSE "log"

\* file system f with the files S in its resume directory
WithResumeFiles(f, S) ==
    [f EXCEPT !.files = [p \in DOMAIN f.files \cup {PathJoin(ResumeDir, n) : n \in S} |->
                           IF p \in DOMAIN f.files THEN f.files[p]
                           ELSE content(SplitLast(p, Slash))]]

\* the file systems an invocation may start in
FileSystems ==
    { WithResumeFiles(f, S) :
        f \in Surroundings, S \in {T \in SUBSET DirPool : Cardinality(T) <= MaxFiles} }

-----------------------------------------------------------------------------
(* glob and fnmatch *)

\* ord('*'), ord('?'), ord('['), ord(']'), ord('!')
Star == 42
Question == 63
LBracket == 91
RBracket == 93
Bang == 33

\* glob.has_magic(s)
has_magic(s) == \E i \in 1..Len(s) : s[i] \in {Star, Question, LBracket}

\* glob._ishidden(s)
ishidden(s) == Len(s) > 0 /\ s[1] = Dot

\* fnmatch.translate: the position of the ']' that closes the set whose first
\* character is at position i of pat, 0 when the '[' is not closed
CloseOf(pat, i) ==
    LET j1 == IF i <= Len(pat) /\ pat[i] = Bang THEN i + 1 ELSE i
        j2 == IF j1 <= Len(pat) /\ pat[j1] = RBracket THEN j1 + 1 ELSE j1
        later == {k \in j2..Len(pat) : pat[k] = RBracket}
    IN IF later = {} THEN 0 ELSE Min(later)

RECURSIVE Chunks(_, _, _)
\* fnmatch.translate: the set's text s cut at the hyphens that make ranges, the
\* chunk in hand beginning at position a, the next hyphen looked for from k on
Chunks(s, a, k) ==
    LET hs == {h \in k..Len(s) : s[h] = Hyphen}
    IN IF hs = {} THEN <<SubSeq(s, a, Len(s))>>
       ELSE <<SubSeq(s, a, Min(hs) - 1)>> \o Chunks(s, Min(hs) + 1, Min(hs) + 3)

\* fnmatch.translate: a last chunk that is empty is a hyphen of the chunk before
ChunksOf(s) ==
    LET chs == Chunks(s, 1, IF s[1] = Bang THEN 3 ELSE 2)
    IN IF chs[Len(chs)] # <<>> THEN chs
       ELSE SubSeq(chs, 1, Len(chs) - 2)
            \o <<chs[Len(chs) - 1] \o <<Hyphen>>>>

RECURSIVE RemoveEmptyRanges(_, _)
\* fnmatch.translate: from the last chunk k down, a range whose first character
\* is above its last is dropped, the two chunks becoming one
RemoveEmptyRanges(chs, k) ==
    IF k < 2 THEN chs
    ELSE IF chs[k - 1][Len(chs[k - 1])] > chs[k][1]
    THEN RemoveEmptyRanges(SubSeq(chs, 1, k - 2)
                           \o <<SubSeq(chs[k - 1], 1, Len(chs[k - 1]) - 1) \o Tail(chs[k])>>
                           \o SubSeq(chs, k + 1, Len(chs)), k - 1)
    ELSE RemoveEmptyRanges(chs, k - 1)

\* character c matches the set whose chunks are chs
InChunks(c, chs) ==
    LET negated == Len(chs[1]) > 0 /\ chs[1][1] = Bang
        first == IF negated THEN Tail(chs[1]) ELSE chs[1]
        single == {first[i] : i \in 1..Len(first)}
                  \cup UNION {{chs[k][i] : i \in 1..Len(chs[k])} : k \in 2..Len(chs)}
        ranged == UNION {chs[k - 1][Len(chs[k - 1])]..chs[k][1] : k \in 2..Len(chs)}
    IN IF negated THEN c \notin single \cup ranged ELSE c \in single \cup ranged

\* the chunks whose empty ranges are removed
Ranges(chs) == RemoveEmptyRanges(chs, Len(chs))

\* character c matches the set [stuff] of a pattern
InSet(c, stuff) ==
    IF \E i \in 1..Len(stuff) : stuff[i] = Hyphen
    THEN InChunks(c, Ranges(ChunksOf(stuff)))
    ELSE InChunks(c, <<stuff>>)

RECURSIVE fnmatch(_, _)
\* a set of characters that closes at position j of pat
MatchSet(name, pat, j) ==
    /\ InSet(name[1], SubSeq(pat, 2, j - 1))
    /\ fnmatch(Tail(name), SubSeq(pat, j + 1, Len(pat)))

\* fnmatch.fnmatchcase(name, pat): '*' is any text, '?' any character, '[...]' a
\* set of characters, an unclosed '[' and every other character itself
fnmatch(name, pat) ==
    IF Len(pat) = 0 THEN Len(name) = 0
    ELSE IF pat[1] = Star
    THEN fnmatch(name, Tail(pat)) \/ (Len(name) > 0 /\ fnmatch(Tail(name), pat))
    ELSE IF Len(name) = 0 THEN FALSE
    ELSE IF pat[1] = Question THEN fnmatch(Tail(name), Tail(pat))
    ELSE IF pat[1] = LBracket /\ CloseOf(pat, 2) > 0
    THEN MatchSet(name, pat, CloseOf(pat, 2))
    ELSE name[1] = pat[1] /\ fnmatch(Tail(name), Tail(pat))

\* a filter that keeps every name
fnmatch_filter_all(names, pat) == names

\* fnmatch.filter(names, pat)
fnmatch_filter(names, pat) == SelectSeq(names, LAMBDA n : fnmatch(n, pat))

\* glob._glob1(dirname, pattern): the lists it may return, one for each order
\* the directory may be listed in; hidden names are for a hidden pattern only
glob1(f, dirname, pattern, dironly) ==
    {fnmatch_filter(l, pattern) :
       l \in Listings({n \in listdir(f, dirname, dironly) :
                         ishidden(pattern) \/ ~ishidden(n)})}

\* glob._glob0(dirname, basename)
glob0(f, dirname, basename) ==
    IF basename # <<>>
    THEN (IF Exists(f, PathJoin(dirname, basename)) THEN {<<basename>>} ELSE {<<>>})
    ELSE (IF IsDir(f, dirname) THEN {<<basename>>} ELSE {<<>>})

\* os.path.join(dirname, name) for every name of the list
join_each(dirname, names) == [i \in 1..Len(names) |-> PathJoin(dirname, names[i])]

RECURSIVE glob_in_dirs(_, _, _, _)
\* the loop of glob._iglob over its directories: the lists it may yield
glob_in_dirs(f, dirs, basename, dironly) ==
    IF Len(dirs) = 0 THEN {<<>>}
    ELSE { join_each(dirs[1], a) \o b :
             a \in (IF has_magic(basename) THEN glob1(f, dirs[1], basename, dironly)
                    ELSE glob0(f, dirs[1], basename)),
             b \in glob_in_dirs(f, Tail(dirs), basename, dironly) }

RECURSIVE iglob(_, _, _)
\* glob._iglob(pathname, dironly): the lists it may yield
iglob(f, pathname, dironly) ==
    LET dirname == split(pathname).head
        basename == split(pathname).tail
    IN IF ~has_magic(pathname)
       THEN (IF \/ basename # <<>> /\ Exists(f, pathname)
                \/ basename = <<>> /\ IsDir(f, dirname)
             THEN {<<pathname>>} ELSE {<<>>})
       ELSE IF dirname = <<>> THEN glob1(f, dirname, basename, dironly)
       ELSE UNION { glob_in_dirs(f, dirs, basename, dironly) :
                      dirs \in (IF dirname # pathname /\ has_magic(dirname)
                                THEN iglob(f, dirname, TRUE)
                                ELSE {<<dirname>>}) }

\* glob.glob(pathname): the lists it may return
glob(f, pathname) == iglob(f, pathname, FALSE)

\* '/*.ckpt'
SlashStarDotCkpt == Text(<<"/", "*", ".", "c", "k", "p", "t">>)

\* f'{resume}/*.ckpt'
ckpt_pattern(resume) == resume \o SlashStarDotCkpt

-----------------------------------------------------------------------------
(* get_upstream_args *)

\* pth.split('-')[-1].split('.')[0], the text the sort key converts
StepText(pth) == SplitFirst(SplitLast(pth, Hyphen), Dot)

RECURSIVE StrLeq(_, _)
\* a <= b for two strings
StrLeq(a, b) ==
    IF Len(a) = 0 THEN TRUE
    ELSE IF Len(b) = 0 THEN FALSE
    ELSE IF a[1] # b[1] THEN a[1] < b[1]
    ELSE StrLeq(Tail(a), Tail(b))

\* the order of sorted(ckpts), with no key: by the path strings
KeyLeqByString(a, b) == StrLeq(a, b)

\* the order of the sort key: int(pth.split('-')[-1].split('.')[0])
KeyLeq(a, b) == ToInt(StepText(a)) <= ToInt(StepText(b))

\* x put into the sorted list l before the first of the positions `above`
InsertBefore(l, x, above) ==
    LET k == IF above = {} THEN Len(l) ELSE Min(above) - 1
    IN SubSeq(l, 1, k) \o <<x>> \o SubSeq(l, k + 1, Len(l))

\* x put into the sorted list l after every element not above it
Insert(l, x) == InsertBefore(l, x, {i \in 1..Len(l) : ~KeyLeq(l[i], x)})

RECURSIVE sorted(_)
\* sorted(l, key=...): a stable sort
sorted(l) == IF Len(l) = 0 THEN <<>>
             ELSE Insert(sorted(SubSeq(l, 1, Len(l) - 1)), l[Len(l)])

\* the key function raises ValueError on some path of l
KeyFails(l) == \E i \in 1..Len(l) : ~IsInt(StepText(l[i]))

\* ckpts[-1]
last_ckpt(l) == l[Len(l)]

\* what a call returns or raises
Returned(v) == [raised |-> <<>>, value |-> v]
Raised(exc, where) == [raised |-> <<exc, where>>, value |-> <<>>]

\* the invocation ends in an uncaught exception
Failed(exc, where) ==
    /\ pc' = "failed"
    /\ error' = <<exc, where>>

\* parser.parse_args(): a --run outside the choices ends the program
get_upstream_args_parse ==
    /\ pc = "parse"
    /\ \E run \in RunInputs, resume \in {None, ResumeDir, ResumeDirSlash, ResumeFile},
          cfg \in {None, ConfA, ConfB, TestCkpt}, name \in {None, ExpName}, dir \in {Empty, OutDir},
          seed \in Seeds, test \in {Empty, TestCkpt}, online \in {None, OnlineY} :
         IF run \notin RunChoices
         THEN /\ Failed("SystemExit", "parse_args")
              /\ UNCHANGED <<cli, args>>
         ELSE /\ cli' = <<Namespace(resume, run, cfg, name, dir, seed, test, online)>>
              /\ args' = Namespace(resume, run, cfg, name, dir, seed, test, online)
              /\ pc' = IF resume = None THEN "yaml" ELSE "resume"
              /\ UNCHANGED error
    /\ UNCHANGED <<config, globbed, ckpts, resume_ckpt, ckpt, rng, backend, fs, fs0, ckpdir,
                   called, loaded, dataloader, runner, model>>

\* yaml.load(stream, Loader=yaml.FullLoader) on a file of content c
yaml_parsed(c) ==
    IF yaml_load_error(c) # "" THEN Raised(yaml_load_error(c), "yaml.load")
    ELSE Returned(yaml_load(c))

\* yaml.load(open(p, 'r')) once open has raised e, or ("") has opened the file
\* the file system holds under `held`
yaml_opened(f, e, held) ==
    IF e # "" THEN Raised(e, "open") ELSE yaml_parsed(f.files[held])

\* yaml.load(open(p, 'r'), Loader=yaml.FullLoader): the mapping read, or the
\* exception and the call that raises it
yaml_read(f, p) ==
    IF p = None THEN Raised("TypeError", "open")
    ELSE yaml_opened(f, open_error(f, p), Stored(f, p))

\* the two reads of the branch: `first` is what reading args.config gives and
\* `second` what reading args.online_config gives, which is read only when it
\* is given and the first read and parse_prune_heads have returned
get_upstream_args_configs(first, second) ==
    IF first.raised # <<>>
    THEN /\ pc' = "failed"
         /\ error' = first.raised
         /\ UNCHANGED <<config, loaded>>
    ELSE IF args.online_config = None
    THEN /\ config' = parse_prune_heads(first.value)
         /\ loaded' = loaded \cup {<<"yaml.load", args.config>>}
         /\ pc' = "seed"
         /\ UNCHANGED error
    ELSE IF second.raised # <<>>
    THEN /\ pc' = "failed"
         /\ error' = second.raised
         /\ config' = parse_prune_heads(first.value)
         /\ loaded' = loaded \cup {<<"yaml.load", args.config>>}
    ELSE /\ config' = setattr(parse_prune_heads(first.value), "online", second.value)
         /\ loaded' = loaded \cup {<<"yaml.load", args.config>>,
                                   <<"yaml.load", args.online_config>>}
         /\ pc' = "seed"
         /\ UNCHANGED error

\* the branch args.resume is None: the config is read from the YAML files
get_upstream_args_yaml ==
    /\ pc = "yaml"
    /\ args' = setattr(args, "gpu", ~args.cpu)
    /\ get_upstream_args_configs(yaml_read(fs, args.config),
                                 yaml_read(fs, args.online_config))
    /\ UNCHANGED <<cli, globbed, ckpts, resume_ckpt, ckpt, rng, backend, fs, fs0, ckpdir,
                   called, dataloader, runner, model>>

\* the branch args.resume is given, up to resume_ckpt: a directory is globbed, its
\* checkpoints sorted by step and the last one taken; a file is taken as it is
get_upstream_args_resume ==
    /\ pc = "resume"
    /\ IF IsDir(fs, args.resume)
       THEN \E found \in glob(fs, ckpt_pattern(args.resume)) :
              /\ globbed' = <<found>>
              /\ IF Len(found) = 0
                 THEN /\ Failed("AssertionError", "get_upstream_args")
                      /\ ckpts' = found
                      /\ UNCHANGED resume_ckpt
                 ELSE IF KeyFails(found)
                 THEN /\ Failed("ValueError", "int")
                      /\ ckpts' = found
                      /\ UNCHANGED resume_ckpt
                 ELSE /\ ckpts' = sorted(found)
                      /\ resume_ckpt' = last_ckpt(ckpts')
                      /\ pc' = "load"
                      /\ UNCHANGED error
       ELSE /\ resume_ckpt' = args.resume
            /\ pc' = "load"
            /\ UNCHANGED <<error, globbed, ckpts>>
    /\ UNCHANGED <<cli, args, config, ckpt, rng, backend, fs, fs0, ckpdir,
                   called, loaded, dataloader, runner, model>>

\* torch.load on a file of content c: the objects it may return; a file that is
\* no checkpoint cannot be unpickled
torch_unpickled(c) ==
    IF c = "ckpt" THEN Returned(Checkpoints \cup {NoEntries})
    ELSE Raised("UnpicklingError", "torch.load")

\* torch.load once open has raised e, or ("") has opened the file the file
\* system holds under `held`
torch_opened(f, e, held) ==
    IF e # "" THEN Raised(e, "torch.load") ELSE torch_unpickled(f.files[held])

\* torch.load(p, map_location='cpu'): the objects it may return, or the exception
torch_load(f, p) == torch_opened(f, open_error(f, p), Stored(f, p))

\* what follows torch.load, which gave `got`: an object with no 'Settings' entry
\* is a KeyError; else update_args, the checkpoint's config, and the resolved
\* path put back into args.resume
get_upstream_args_loaded(got) ==
    IF got.raised # <<>>
    THEN /\ pc' = "failed"
         /\ error' = got.raised
         /\ UNCHANGED <<args, config, ckpt, loaded>>
    ELSE \E k \in got.value :
           IF k = NoEntries
           THEN /\ Failed("KeyError", "Settings")
                /\ ckpt' = <<k>>
                /\ loaded' = loaded \cup {<<"torch.load", resume_ckpt>>}
                /\ UNCHANGED <<args, config>>
           ELSE /\ ckpt' = <<k>>
                /\ args' = setattr(update_args(args, k.Paras), "resume", resume_ckpt)
                /\ config' = k.Config
                /\ loaded' = loaded \cup {<<"torch.load", resume_ckpt>>}
                /\ pc' = "seed"
                /\ UNCHANGED error

\* the rest of the resume branch: torch.load of resume_ckpt and what follows it
get_upstream_args_load ==
    /\ pc = "load"
    /\ get_upstream_args_loaded(torch_load(fs, resume_ckpt))
    /\ UNCHANGED <<cli, globbed, ckpts, resume_ckpt, rng, backend, fs, fs0, ckpdir,
                   called, dataloader, runner, model>>

-----------------------------------------------------------------------------
(* main *)

\* random.seed left out of main
main_seed_rng_skipped(g, seed) == g

\* random.seed(args.seed) in main
main_seed_rng(g, seed) == random_seed(g, seed)

\* main from get_upstream_args' return to the dispatch: the three generators are
\* seeded and the cudnn flags set; get_upstream_args' locals are gone
main_seed ==
    /\ pc = "seed"
    /\ rng' = main_seed_rng(rng, args.seed)
    /\ backend' = [numpy |-> <<args.seed>>, torch |-> <<args.seed>>,
                   deterministic |-> TRUE, benchmark |-> TRUE]
    /\ globbed' = <<>>
    /\ ckpts' = <<>>
    /\ ckpt' = <<>>
    /\ resume_ckpt' = None
    /\ pc' = "dispatch"
    /\ UNCHANGED <<error, cli, args, config, fs, fs0, ckpdir, called, loaded,
                   dataloader, runner, model>>

\* a dispatch that tests only args.run
dispatch_ignoring_test(a) ==
    IF a.run = Transformer THEN "run_transformer"
    ELSE IF a.run = Apc THEN "run_apc"
    ELSE "return"

\* the branch main's if / elif on args.run and args.test takes
dispatch(a) ==
    IF a.run = Transformer
    THEN (IF a.test # Empty THEN "test_transformer" ELSE "run_transformer")
    ELSE IF a.run = Apc
    THEN (IF a.test # Empty THEN "NotImplementedError" ELSE "run_apc")
    ELSE "return"

\* main's dispatch
main_dispatch ==
    /\ pc = "dispatch"
    /\ IF dispatch(args) = "NotImplementedError"
       THEN /\ Failed("NotImplementedError", "main")
            /\ UNCHANGED called
       ELSE IF dispatch(args) = "return"
       THEN /\ pc' = "done"
            /\ UNCHANGED <<error, called>>
       ELSE /\ pc' = dispatch(args)
            /\ called' = Append(called, dispatch(args))
            /\ UNCHANGED error
    /\ UNCHANGED <<cli, args, config, globbed, ckpts, resume_ckpt, ckpt, rng, backend, fs, fs0,
                   ckpdir, loaded, dataloader, runner, model>>

-----------------------------------------------------------------------------
(* run_transformer *)

\* the blocks in another order: the dataloader is constructed before the copies
run_transformer_blocks_dataloader_first ==
    <<"run_transformer", "dataloader", "copy", "train", "done">>

\* the blocks of run_transformer in the order of the source: '# mkdir' (the
\* function's entry), the copyfile calls, '# get dataloader', '# train', return
run_transformer_blocks == <<"run_transformer", "copy", "dataloader", "train", "done">>

\* the block control reaches when block b has ended
block_after(b) ==
    run_transformer_blocks[
        (CHOOSE i \in 1..Len(run_transformer_blocks) : run_transformer_blocks[i] = b) + 1]

\* the values random.randint(0, 999) may give for the tag of an unnamed run
tag_range(g) == randint(g, RandLo, RandHi)

\* the checkpoint directory put together without the default prefix
resolve_ckpdir_no_prefix(a, n) ==
    IF a.ckpdir = Empty
    THEN (IF a.name = None THEN RunName(n) ELSE a.name)
    ELSE a.ckpdir

\* the checkpoint directory: args.ckpdir, or the default prefix joined with
\* args.name, which is 'run_' + str(n) when no name was given
resolve_ckpdir(a, n) ==
    IF a.ckpdir = Empty
    THEN PathJoin(DefaultPrefix, IF a.name = None THEN RunName(n) ELSE a.name)
    ELSE a.ckpdir

\* if not os.path.exists(ckpdir): os.makedirs(ckpdir)
ensure_dir(f, d) == IF Exists(f, d) THEN [fs |-> f, err |-> ""] ELSE makedirs(f, d)

\* the '# mkdir' block of run_transformer
\* the end of the '# mkdir' block: `made` is what the directory's creation gave
run_transformer_made(made) ==
    /\ fs' = made.fs
    /\ IF made.err # ""
       THEN Failed(made.err, "makedirs")
       ELSE /\ pc' = block_after("run_transformer")
            /\ UNCHANGED error

\* the '# mkdir' block of run_transformer
run_transformer_mkdir ==
    /\ pc = "run_transformer"
    /\ LET tagged == args.ckpdir = Empty /\ args.name = None
       IN \E n \in (IF tagged THEN tag_range(rng) ELSE {RandLo}) :
            /\ args' = IF tagged THEN [args EXCEPT !.name = RunName(n)] ELSE args
            /\ rng' = IF tagged THEN drawn(rng) ELSE rng
            /\ ckpdir' = resolve_ckpdir(args, n)
            /\ run_transformer_made(ensure_dir(fs, ckpdir'))
    /\ UNCHANGED <<cli, config, globbed, ckpts, resume_ckpt, ckpt, backend, fs0,
                   called, loaded, dataloader, runner, model>>

\* os.path.join(ckpdir, src.split('/')[-1])
copy_target(d, src) == PathJoin(d, SplitLast(src, Slash))

\* the end of the copies: `second` is what copying args.online_config gave
run_transformer_copied_online(second) ==
    /\ fs' = second.fs
    /\ IF second.err # ""
       THEN Failed(second.err, "copyfile")
       ELSE /\ pc' = block_after("copy")
            /\ UNCHANGED error

\* what follows the first copy: `first` is what copying args.config gave
run_transformer_copied_config(first) ==
    IF first.err # ""
    THEN /\ Failed(first.err, "copyfile")
         /\ UNCHANGED fs
    ELSE IF args.online_config = None
    THEN /\ fs' = first.fs
         /\ pc' = block_after("copy")
         /\ UNCHANGED error
    ELSE run_transformer_copied_online(
             copyfile(first.fs, args.online_config, copy_target(ckpdir, args.online_config)))

\* the two copyfile calls of run_transformer
run_transformer_copy ==
    /\ pc = "copy"
    /\ IF args.config = None
       THEN /\ Failed("AttributeError", "split")
            /\ UNCHANGED fs
       ELSE run_transformer_copied_config(
                copyfile(fs, args.config, copy_target(ckpdir, args.config)))
    /\ UNCHANGED <<cli, args, config, globbed, ckpts, resume_ckpt, ckpt, rng, backend, fs0,
                   ckpdir, called, loaded, dataloader, runner, model>>

\* get_dataloader without the check of the data path
get_dataloader_unchecked(a, c, f) ==
    IF "gpu" \notin DOMAIN a THEN Raised("AttributeError", "gpu")
    ELSE Returned(<<"get_Dataloader", IF c.duo_feature THEN "duo" ELSE "acoustic">>)

\* get_dataloader(args, config): the data path is checked, then get_Dataloader is
\* called with load = 'duo' or 'acoustic' and use_gpu = args.gpu
get_dataloader(a, c, f) ==
    IF ~Exists(f, c.data_path) THEN Raised("RuntimeError", "get_dataloader")
    ELSE IF "gpu" \notin DOMAIN a THEN Raised("AttributeError", "gpu")
    ELSE Returned(<<"get_Dataloader", IF c.duo_feature THEN "duo" ELSE "acoustic">>)

\* the '# get dataloader' block of run_transformer
run_transformer_dataloader ==
    /\ pc = "dataloader"
    /\ IF "online" \in DOMAIN config
       THEN /\ dataloader' = <<"get_online_Dataloader">>
            /\ pc' = block_after("dataloader")
            /\ UNCHANGED error
       ELSE LET got == get_dataloader(args, config, fs)
            IN IF got.raised # <<>>
               THEN /\ pc' = "failed"
                    /\ error' = got.raised
                    /\ UNCHANGED dataloader
               ELSE /\ dataloader' = got.value
                    /\ pc' = block_after("dataloader")
                    /\ UNCHANGED error
    /\ UNCHANGED <<cli, args, config, globbed, ckpts, resume_ckpt, ckpt, rng, backend, fs, fs0,
                   ckpdir, called, loaded, runner, model>>

\* the '# train' block of run_transformer: Runner(...), set_model(), train()
run_transformer_train ==
    /\ pc = "train"
    /\ runner' = <<"transformer.runner.Runner">>
    /\ pc' = block_after("train")
    /\ UNCHANGED <<error, cli, args, config, globbed, ckpts, resume_ckpt, ckpt, rng, backend,
                   fs, fs0, ckpdir, called, loaded, dataloader, model>>

-----------------------------------------------------------------------------
(* test_transformer and run_apc *)

\* TRANSFORMER(options, input_dim): the model loader reads options['ckpt_file']
\* and fails on a path that names no file
TRANSFORMER(f, ckpt_file) ==
    LET e == open_error(f, ckpt_file)
    IN IF e = "" THEN Returned(<<"TRANSFORMER", ckpt_file>>)
       ELSE Raised(e, "TRANSFORMER")

\* test_transformer(args, input_dim): the options name args.test as ckpt_file
test_transformer ==
    /\ pc = "test_transformer"
    /\ LET upstream_model == TRANSFORMER(fs, args.test)
       IN IF upstream_model.raised = <<>>
          THEN /\ model' = upstream_model.value
               /\ loaded' = loaded \cup {<<"TRANSFORMER", args.test>>}
               /\ pc' = "done"
               /\ UNCHANGED error
          ELSE /\ pc' = "failed"
               /\ error' = upstream_model.raised
               /\ UNCHANGED <<model, loaded>>
    /\ UNCHANGED <<cli, args, config, globbed, ckpts, resume_ckpt, ckpt, rng, backend,
                   fs, fs0, ckpdir, called, dataloader, runner>>

\* run_apc(seed): Runner(seed, train=True), train()
run_apc ==
    /\ pc = "run_apc"
    /\ runner' = <<"rnn.runner.Runner">>
    /\ pc' = "done"
    /\ UNCHANGED <<error, cli, args, config, globbed, ckpts, resume_ckpt, ckpt, rng, backend,
                   fs, fs0, ckpdir, called, loaded, dataloader, model>>

-----------------------------------------------------------------------------
(* The specification *)

Init ==
    /\ pc = "parse"
    /\ error = <<>>
    /\ cli = <<>>
    /\ args = NoEntries
    /\ config = NoEntries
    /\ globbed = <<>>
    /\ ckpts = <<>>
    /\ resume_ckpt = None
    /\ ckpt = <<>>
    /\ rng = [seeded |-> FALSE, seed |-> 0, draws |-> 0]
    /\ backend = [numpy |-> <<>>, torch |-> <<>>,
                  deterministic |-> FALSE, benchmark |-> FALSE]
    /\ fs \in FileSystems
    /\ fs0 = fs
    /\ ckpdir = None
    /\ called = <<>>
    /\ loaded = {}
    /\ dataloader = <<>>
    /\ runner = <<>>
    /\ model = <<>>

Next ==
    \/ get_upstream_args_parse
    \/ get_upstream_args_yaml
    \/ get_upstream_args_resume
    \/ get_upstream_args_load
    \/ main_seed
    \/ main_dispatch
    \/ run_transformer_mkdir
    \/ run_transformer_copy
    \/ run_transformer_dataloader
    \/ run_transformer_train
    \/ test_transformer
    \/ run_apc

Spec == Init /\ [][Next]_vars

-----------------------------------------------------------------------------
(* Vocabulary of the properties *)

DotCkpt == Text(<<".", "c", "k", "p", "t">>)

\* '*.ckpt' as a property of a file name: a name that ends in .ckpt and does not
\* begin with a dot
MatchesCkptName(name) == EndsWith(name, DotCkpt) /\ name[1] # Dot

\* the files the resume directory of file system f holds, by name
ResumeFiles(f) ==
    {SplitLast(p, Slash) : p \in {q \in DOMAIN f.files : split(q).head = ResumeDir}}

\* the invocation ended inside get_upstream_args
LoadFailed ==
    /\ pc = "failed"
    /\ error[2] \in {"parse_args", "open", "yaml.load", "get_upstream_args", "int",
                     "torch.load", "Settings"}

\* get_upstream_args has returned its (args, config) pair
ArgsReturned == pc \notin {"parse", "yaml", "resume", "load"} /\ ~LoadFailed

\* main's dispatch has been taken
Dispatched == ArgsReturned /\ pc \notin {"seed", "dispatch"}

NotImplemented == <<"NotImplementedError", "main">>
DataPathError == <<"RuntimeError", "get_dataloader">>

\* a checkpoint file has been read, by torch.load or by the model's loader
CheckpointLoaded == \E e \in loaded : e[1] \in {"torch.load", "TRANSFORMER"}

\* b is the part of path p after its last '/'
IsBaseName(b, p) ==
    /\ SepPositions(b, Slash) = {}
    /\ \/ p = b
       \/ EndsWith(p, <<Slash>> \o b)

\* directory d holds a copy of file src under src's base filename
CopiedInto(f, d, src) ==
    \E i \in 1..(Len(src) + 1) :
      LET b == SubSeq(src, i, Len(src))
      IN /\ IsBaseName(b, src)
         /\ (d \o <<Slash>> \o b) \in DOMAIN f.files
         /\ src \in DOMAIN f.files
         /\ f.files[d \o <<Slash>> \o b] = f.files[src]

\* get_dataloader has been called and has returned or raised
GetDataloaderCalled ==
    /\ called = <<"run_transformer">>
    /\ "online" \notin DOMAIN config
    /\ \/ pc \in {"train", "done"}
       \/ pc = "failed" /\ error[2] \in {"get_dataloader", "gpu"}

\* run_transformer is past its two copyfile calls
CopiesDone ==
    /\ called = <<"run_transformer">>
    /\ \/ pc \in {"dataloader", "train", "done"}
       \/ pc = "failed" /\ error[2] \in {"get_dataloader", "gpu"}

S9 == Text(<<"c", "k", "/", "s", "t", "a", "t", "e", "s", "-", "9", ".", "c", "k", "p", "t">>)
S10 == Text(<<"c", "k", "/", "s", "t", "a", "t", "e", "s", "-", "1", "0", ".", "c", "k", "p", "t">>)
B10 == Text(<<"c", "k", "/", "b", "e", "s", "t", "-", "1", "0", ".", "c", "k", "p", "t">>)
\* step 8, written +0_8
P8 == Text(<<"c", "k", "/", "s", "t", "a", "t", "e", "s", "-", "+", "0", "_", "8", ".", "c", "k", "p", "t">>)
\* the default checkpoint directory of seed 1337
Run632 == Text(<<"r", "e", "s", "u", "l", "t", "/", "r", "e", "s", "u", "l", "t", "_", "t", "r", "a", "n", "s", "f", "o", "r", "m", "e", "r", "/", "r", "u", "n", "_", "6", "3", "2">>)

\* the text of a run name after its first four characters
TagOf(name) == SubSeq(name, 5, Len(name))

Range(l) == {l[i] : i \in 1..Len(l)}

-----------------------------------------------------------------------------
(* The claims *)

\* C1: once main has dispatched, args.run is 'transformer' or 'apc' and exactly the
\* one outcome of its branch has been taken: test_transformer only, run_transformer
\* only, the unimplemented error with no run path entered, or run_apc only.
C1_DispatchTakesOneOfFour ==
    Dispatched =>
      /\ args.run \in {Transformer, Apc}
      /\ (args.run = Transformer /\ args.test # Empty) => called = <<"test_transformer">>
      /\ (args.run = Transformer /\ args.test = Empty) => called = <<"run_transformer">>
      /\ (args.run = Apc /\ args.test # Empty) => (called = <<>> /\ error = NotImplemented)
      /\ (args.run = Apc /\ args.test = Empty) => called = <<"run_apc">>

\* C2: when the resume directory's checkpoints all carry a numeric step suffix, the
\* resolved resume checkpoint is a *.ckpt file of the directory, one of the files
\* glob returned; the sorted list holds the files glob returned; no such file has
\* a greater step; step 10 is taken over steps 9 and 8 and step 9 over step 8.
C2_ResumeTakesGreatestStep ==
    (pc = "load" /\ args.resume \in {ResumeDir, ResumeDirSlash}) =>
      /\ resume_ckpt \in Range(ckpts)
      /\ Range(ckpts) = Range(globbed[1])
      /\ \E n \in ResumeFiles(fs) :
           /\ MatchesCkptName(n)
           /\ resume_ckpt = ResumeDirSlash \o n
           /\ resume_ckpt \in DOMAIN fs.files
      /\ \A n \in ResumeFiles(fs) :
           MatchesCkptName(n) =>
             /\ (ResumeDirSlash \o n) \in Range(ckpts)
             /\ ToInt(StepText(ResumeDirSlash \o n)) <= ToInt(StepText(resume_ckpt))
      /\ (S10 \in Range(ckpts) \/ B10 \in Range(ckpts)) => resume_ckpt \in {S10, B10}
      /\ (P8 \in Range(ckpts) /\ Len(ckpts) > 1) => resume_ckpt # P8

\* C2 witness: steps 9 and 10 are both returned, 10 first, and step 10 is resolved.
C2_Witness ==
    /\ pc = "load"
    /\ globbed = << <<S10, S9>> >>
    /\ resume_ckpt = S10

\* C3: when get_upstream_args returns on resume, every field the checkpoint stores
\* (other than resume) has the checkpoint's value, every command-line field the
\* checkpoint does not store keeps its command-line value, the config is the
\* checkpoint's config, no YAML file was read, and args.resume is the resolved path.
C3_ResumeCheckpointWins ==
    (pc = "seed" /\ ckpt # <<>>) =>
      LET stored == ckpt[1].Paras
          given == cli[1]
      IN /\ \A f \in DOMAIN stored \ {"resume"} : args[f] = stored[f]
         /\ \A f \in DOMAIN given \ (DOMAIN stored \cup {"resume"}) : args[f] = given[f]
         /\ DOMAIN args = DOMAIN given \cup DOMAIN stored
         /\ config = ckpt[1].Config
         /\ \A e \in loaded : e[1] # "yaml.load"
         /\ args.resume = resume_ckpt
         /\ IF given.resume \in {ResumeDir, ResumeDirSlash}
            THEN \E n \in DirPool : resume_ckpt = ResumeDirSlash \o n
            ELSE resume_ckpt = given.resume

\* C3 witness: a checkpoint that stores another seed and another resume path than
\* the command line gives, stores no run field, and holds a config that was not
\* normalised.
C3_Witness ==
    /\ pc = "seed"
    /\ ckpt # <<>>
    /\ "run" \notin DOMAIN ckpt[1].Paras
    /\ ckpt[1].Paras.resume = OldResume
    /\ cli[1].seed # ckpt[1].Paras.seed
    /\ cli[1].run = Transformer
    /\ cli[1].resume = ResumeDir
    /\ config.prune_headids # parse_prune_heads(config).prune_headids

\* --test and --run transformer were given on the command line
TestFlagsGiven == cli # <<>> /\ cli[1].run = Transformer /\ cli[1].test # Empty

\* the only run path entered is test_transformer: no dataloader and no Runner is
\* constructed, no checkpoint directory is resolved or created, no file is copied
OnlyTestPathTaken ==
    /\ called \in {<<>>, <<"test_transformer">>}
    /\ Dispatched => called = <<"test_transformer">>
    /\ fs = fs0
    /\ dataloader = <<>>
    /\ runner = <<>>
    /\ ckpdir = None

\* C4 as claimed: when --test is set with --run transformer on the command line,
\* at every point of the run the only run path entered is test_transformer: no
\* dataloader is constructed, no checkpoint directory is created, no file is copied.
C4_TestFlagsLeaveFilesAlone == TestFlagsGiven => OnlyTestPathTaken

\* C4 amended: the run and test that count are those of the arguments
\* get_upstream_args returns.  With run = transformer and a non-empty test path
\* in them, the only run path entered is test_transformer: no dataloader and no
\* Runner is constructed, no checkpoint directory is resolved or created, no file
\* is copied, and the only model file read is args.test.  Without --resume these
\* are the --run and --test of the command line; with --resume they are the
\* checkpoint's where it stores them.  Before any run path is entered the file
\* system is as the invocation found it.
C4_TestPathLeavesFilesAlone ==
    /\ (called = <<>>) => (fs = fs0 /\ dataloader = <<>> /\ ckpdir = None)
    /\ (ArgsReturned /\ args.run = Transformer /\ args.test # Empty) =>
         /\ called \in {<<>>, <<"test_transformer">>}
         /\ Dispatched => called = <<"test_transformer">>
         /\ fs = fs0
         /\ dataloader = <<>>
         /\ runner = <<>>
         /\ ckpdir = None
         /\ \A e \in loaded : e[1] = "TRANSFORMER" => e[2] = args.test
    /\ (TestFlagsGiven /\ cli[1].resume = None) =>
         /\ OnlyTestPathTaken
         /\ \A e \in loaded : e[1] = "TRANSFORMER" => e[2] = cli[1].test
    /\ (TestFlagsGiven /\ ArgsReturned /\ ~(args.run = Transformer /\ args.test # Empty)) =>
         /\ cli[1].resume # None
         /\ \E e \in loaded : e[1] = "torch.load"

\* C4 witness: test_transformer has loaded the model from the test path the
\* command line gave.
C4_Witness ==
    /\ pc = "done"
    /\ called = <<"test_transformer">>
    /\ model = <<"TRANSFORMER", TestCkpt>>
    /\ args.resume = None
    /\ TestFlagsGiven
    /\ cli[1].test = TestCkpt

\* C5 as claimed: with run = apc and a non-empty test path the invocation fails with
\* the unimplemented error, and no Runner, no model and no checkpoint is loaded
\* before the failure.
C5_ApcTestLoadsNothing ==
    (ArgsReturned /\ args.run = Apc /\ args.test # Empty) =>
      /\ Dispatched => (pc = "failed" /\ error = NotImplemented)
      /\ called = <<>>
      /\ runner = <<>>
      /\ model = <<>>
      /\ ~CheckpointLoaded

\* C5 amended: with run = apc and a non-empty test path in the arguments
\* get_upstream_args returns, main fails with the unimplemented error with no run
\* path entered, no Runner and no model constructed; the only checkpoint read
\* before the failure is the --resume checkpoint, and none without --resume.
C5_ApcTestFailsBeforeModels ==
    (ArgsReturned /\ args.run = Apc /\ args.test # Empty) =>
      /\ Dispatched => (pc = "failed" /\ error = NotImplemented)
      /\ called = <<>>
      /\ runner = <<>>
      /\ model = <<>>
      /\ \A e \in loaded : e[1] # "TRANSFORMER"
      /\ \A e \in loaded : e[1] = "torch.load" => (args.resume # None /\ e[2] = args.resume)
      /\ args.resume = None => ~CheckpointLoaded

\* C5 witness: the unimplemented error of an invocation without --resume.
C5_Witness ==
    /\ pc = "failed"
    /\ error = NotImplemented
    /\ args.resume = None
    /\ args.run = Apc
    /\ args.test = TestCkpt

\* C6: when get_dataloader is called with a data path that does not exist, it ends
\* in the data-path error and no dataloader is constructed, whatever duo_feature is;
\* a dataloader get_Dataloader returned means the data path exists.
C6_DataPathCheckedFirst ==
    /\ (GetDataloaderCalled /\ ~Exists(fs, config.data_path)) =>
         (pc = "failed" /\ error = DataPathError /\ dataloader = <<>> /\ runner = <<>>)
    /\ error = DataPathError => (dataloader = <<>> /\ ~Exists(fs, config.data_path))

\* C6 witness: the data-path error with duo_feature set.
C6_Witness ==
    /\ pc = "failed"
    /\ error = DataPathError
    /\ config.duo_feature
    /\ ~Exists(fs, DataDir)

\* C7: a transformer training run that drew its tag (ckpdir and name unset) has the
\* checkpoint directory result/result_transformer/run_<n>, n in 0..999, which is a
\* directory once resolved, and after the copies holds the config file under the
\* part of its path after the last '/'.
C7_DefaultCheckpointDir ==
    /\ (called = <<"run_transformer">> /\ pc # "run_transformer" /\ args.ckpdir = Empty) =>
         args.name # None
    /\ rng.draws > 0 =>
         /\ IsDigitRun(TagOf(args.name))
         /\ DigitsValue(TagOf(args.name)) \in RandLo..RandHi
         /\ args.name = RunName(DigitsValue(TagOf(args.name)))
         /\ ckpdir = DefaultPrefix \o args.name
         /\ args.ckpdir = Empty
         /\ ckpdir \in fs.dirs
         /\ CopiesDone => CopiedInto(fs, ckpdir, args.config)

\* C7 witness: the directory was absent, was created, and holds a.yaml copied from
\* conf/a.yaml.
C7_Witness ==
    /\ pc = "dataloader"
    /\ rng.draws = 1
    /\ ckpdir \notin fs0.dirs
    /\ ckpdir \in fs.dirs
    /\ args.config = ConfA
    /\ (ckpdir \o Text(<<"/", "a", ".", "y", "a", "m", "l">>)) \in DOMAIN fs.files

\* C8: when --resume names the resume directory and the directory holds no *.ckpt
\* file, get_upstream_args ends in the assertion: no checkpoint is loaded, no
\* (args, config) is returned and no run path is entered.
C8_EmptyResumeDirFails ==
    (/\ pc \notin {"parse", "resume"}
     /\ cli # <<>>
     /\ cli[1].resume \in {ResumeDir, ResumeDirSlash}
     /\ \A n \in ResumeFiles(fs) : ~MatchesCkptName(n)) =>
      /\ pc = "failed"
      /\ error = <<"AssertionError", "get_upstream_args">>
      /\ globbed = << <<>> >>
      /\ ~CheckpointLoaded
      /\ ckpt = <<>>
      /\ config = NoEntries
      /\ called = <<>>

\* C8 witness: the assertion in a directory that holds only a log file.
C8_Witness ==
    /\ pc = "failed"
    /\ error = <<"AssertionError", "get_upstream_args">>
    /\ ResumeFiles(fs) = {Text(<<"l", "o", "g", ".", "t", "x", "t">>)}

\* C9: a dataloader exists only once the checkpoint directory exists and holds the
\* copied config file(s); the Runner exists only once the dataloader does; and at
\* the data-path error the directory and the copies are there, so the file system
\* differs from the one the run started in unless they were there already.
C9_DirAndCopyBeforeDataloader ==
    /\ (dataloader # <<>> \/ error = DataPathError) =>
         /\ ckpdir \in fs.dirs
         /\ CopiedInto(fs, ckpdir, args.config)
         /\ args.online_config # None => CopiedInto(fs, ckpdir, args.online_config)
    /\ runner = <<"transformer.runner.Runner">> => dataloader # <<>>
    /\ error = DataPathError =>
         /\ runner = <<>>
         /\ dataloader = <<>>
         /\ \/ fs # fs0
            \/ ckpdir \in fs0.dirs /\ CopiedInto(fs0, ckpdir, args.config)

\* C9 witness: the data-path error of a run that created its checkpoint directory.
C9_Witness ==
    /\ error = DataPathError
    /\ ckpdir \notin fs0.dirs
    /\ ckpdir \in fs.dirs
    /\ fs # fs0

\* C10: the generator is seeded with args.seed before any run path is entered, and
\* the default checkpoint directory is the first draw after that seed: a function
\* of the seed alone (run_632 for the default seed 1337).
C10_DefaultDirIsFunctionOfSeed ==
    /\ called # <<>> => (rng.seeded /\ rng.seed = args.seed)
    /\ rng.draws > 0 =>
         /\ rng.draws = 1
         /\ {ckpdir} = {DefaultPrefix \o RunName(n) : n \in randint_after_seed(args.seed, 0)}
         /\ args.seed = DefaultSeed => ckpdir = Run632

\* C10 witness: an unnamed run with the default seed has resolved its directory.
C10_Witness ==
    /\ pc = "copy"
    /\ rng.draws = 1
    /\ args.seed = DefaultSeed
    /\ ckpdir = Run632

====
